---- MODULE Spec2Model ----
(***************************************************************************)
(* Konnect4: the Connect-Four board (protocol.go), the engine handle       *)
(* (Engine), the game runner (game.go) and the parts of the session hub    *)
(* (Develop) that drive the game.                                          *)
(***************************************************************************)
EXTENDS Integers, Sequences, FiniteSets, TLC

(***************************************************************************)
(* Program constants                                                       *)
(***************************************************************************)
Player1 == 0
Player2 == 1
Empty == 2
Tie == 3

Width == 7
Height == 6
Cells == 42
HistoryLen == 42

NoEngine == -1

(***************************************************************************)
(* Bounds of the model                                                     *)
(***************************************************************************)
\* number of opening plies in which an engine may answer any column 0..6
FreePlies == 1
\* number of state-changing observer commands (engine load, setplayers,
\* newgame, play, pause) the hub handles in one behaviour
MaxCommands == 5
\* number of engines the hub loads in one behaviour
MaxEngines == 2
\* number of state-changing observer commands in one behaviour of SpecRace
MaxRaceCommands == 7

(***************************************************************************)
(* Inputs: what an engine may answer to stop.  After the free opening      *)
(* plies the engine follows one of the scripted games below; at any time   *)
(* it may also answer one of the out-of-range integers in BadMoves.        *)
(***************************************************************************)
DrawScript ==
  << 5, 4, 5, 0, 6, 2, 4, 5, 5, 0, 4, 1, 1, 0, 4, 5, 6, 5, 3, 1, 1,
     2, 2, 6, 2, 6, 6, 3, 6, 2, 0, 3, 0, 3, 3, 4, 3, 1, 4, 2, 1, 0 >>
ThreesScript == << 3, 3, 3, 3, 3, 3, 3, 3 >>
HorizontalScript == << 5, 6, 3, 6, 4, 5, 2 >>
VerticalScript == << 5, 6, 4, 6, 1, 6, 5, 6 >>
PosDiagScript == << 3, 0, 1, 0, 0, 5, 0, 1, 1, 2, 2 >>
NegDiagScript == << 6, 3, 5, 6, 6, 6, 4, 4, 5, 5 >>
ColumnsScript == << 0, 1, 0, 1, 0, 1, 0 >>
Scripts ==
  << DrawScript, ThreesScript, ColumnsScript, HorizontalScript,
     VerticalScript, PosDiagScript, NegDiagScript >>

BadMoves == { -1, 7, 42, 49 }

(***************************************************************************)
(* Board: protocol.go                                                      *)
(***************************************************************************)
\* State{} as Go zero-initialises it: every field 0
ZeroState ==
  [ Tiles |-> [i \in 0..(Cells - 1) |-> 0], Player |-> 0, Winner |-> 0 ]

NewState ==
  [ Tiles |-> [i \in 0..(Cells - 1) |-> Empty],
    Player |-> Player1, Winner |-> Empty ]

LegalActions(s) ==
  [ c \in 0..(Width - 1) |->
      IF s.Winner # Empty THEN FALSE ELSE s.Tiles[c] = Empty ]

\* the loop of dropTile: advance i by 7 while i < 42 and the cell is empty
RECURSIVE dropScan(_, _)
dropScan(tiles, i) ==
  IF i < Cells /\ tiles[i] = Empty THEN dropScan(tiles, i + Width) ELSE i

\* dropTile that takes a column for full one row early
dropTileTopRowClosed(s, player, column) ==
  IF column < 0
  THEN [ st |-> s, err |-> "panic" ]
  ELSE LET i == dropScan(s.Tiles, column) - Width
       IN  IF i < Width THEN [ st |-> s, err |-> "illegal" ]
           ELSE IF i >= Cells THEN [ st |-> s, err |-> "panic" ]
           ELSE [ st |-> [s EXCEPT !.Tiles[i] = player], err |-> "ok" ]

\* dropTile: err is "ok", "illegal" or "panic" (index out of range)
dropTile(s, player, column) ==
  IF column < 0
  THEN [ st |-> s, err |-> "panic" ]
  ELSE LET i == dropScan(s.Tiles, column) - Width
       IN  IF i < 0 THEN [ st |-> s, err |-> "illegal" ]
           ELSE IF i >= Cells THEN [ st |-> s, err |-> "panic" ]
           ELSE [ st |-> [s EXCEPT !.Tiles[i] = player], err |-> "ok" ]

\* one of the two loops of checkForFour: count the cells of player from
\* (cx, cy) on in direction (dx, dy)
RECURSIVE walk(_, _, _, _, _, _, _, _)
walk(tiles, player, cx, cy, index, dx, dy, count) ==
  IF cx >= 0 /\ cx < Width /\ cy >= 0 /\ cy < Height
  THEN IF tiles[index] # player
       THEN count
       ELSE walk(tiles, player, cx + dx, cy + dy, index + dx + Width * dy,
                 dx, dy, count + 1)
  ELSE count

checkForFour(s, player, x, y, dx, dy) ==
  LET fwd == walk(s.Tiles, player, x + dx, y + dy,
                  (x + dx) + Width * (y + dy), dx, dy, 1)
      all == walk(s.Tiles, player, x - dx, y - dy,
                  (x - dx) + Width * (y - dy), -dx, -dy, fwd)
  IN  all >= 4

\* checkAllDirections with the last of its four directions left out
checkAllDirectionsNoFourth(s, player, x, y) ==
  \/ checkForFour(s, player, x, y, 1, 0)
  \/ checkForFour(s, player, x, y, 0, 1)
  \/ checkForFour(s, player, x, y, 1, 1)

checkAllDirections(s, player, x, y) ==
  \/ checkForFour(s, player, x, y, 1, 0)
  \/ checkForFour(s, player, x, y, 0, 1)
  \/ checkForFour(s, player, x, y, 1, 1)
  \/ checkForFour(s, player, x, y, 1, -1)

\* the loop of isWinningMove: the topmost token of the column
RECURSIVE topScan(_, _)
topScan(tiles, index) ==
  IF index < Cells - Width /\ tiles[index] = Empty
  THEN topScan(tiles, index + Width) ELSE index

\* isWinningMove: [win, err]
isWinningMove(s, column) ==
  IF column < 0 \/ column >= Width
  THEN [ win |-> FALSE, err |-> "range" ]
  ELSE LET index == topScan(s.Tiles, column)
           player == s.Tiles[index]
       IN  IF player = Empty
           THEN [ win |-> FALSE, err |-> "nomove" ]
           ELSE [ win |-> checkAllDirections(s, player, index % Width,
                                             index \div Width),
                  err |-> "ok" ]

\* NextState that leaves the side to move as it was
NextStateKeepsPlayer(s, column) ==
  LET d == dropTile(s, s.Player, column)
  IN  IF d.err # "ok" THEN [ st |-> s, err |-> d.err ]
      ELSE LET w == isWinningMove(d.st, column)
           IN  IF w.err # "ok" THEN [ st |-> d.st, err |-> w.err ]
               ELSE [ st |-> IF w.win
                             THEN [d.st EXCEPT !.Winner = d.st.Player]
                             ELSE d.st,
                      err |-> "ok" ]

\* NextState: [st, err]; on an error of dropTile the receiver is returned, on
\* an error of the win check the board with the tile already dropped
NextState(s, column) ==
  LET d == dropTile(s, s.Player, column)
  IN  IF d.err # "ok" THEN [ st |-> s, err |-> d.err ]
      ELSE LET w == isWinningMove(d.st, column)
           IN  IF w.err # "ok" THEN [ st |-> d.st, err |-> w.err ]
               ELSE LET r1 == IF w.win
                              THEN [d.st EXCEPT !.Winner = d.st.Player]
                              ELSE d.st
                    IN  [ st |-> [r1 EXCEPT !.Player =
                                    IF r1.Player = Player1 THEN Player2
                                    ELSE Player1],
                          err |-> "ok" ]

\* the table lines: every four entries name the cells of one four in a row
LineTable ==
  << 0, 1, 2, 3, 1, 2, 3, 4, 2, 3, 4, 5, 3, 4, 5, 6,
     7, 8, 9, 10, 8, 9, 10, 11, 9, 10, 11, 12, 10, 11, 12, 13,
     14, 15, 16, 17, 15, 16, 17, 18, 16, 17, 18, 19, 17, 18, 19, 20,
     21, 22, 23, 24, 22, 23, 24, 25, 23, 24, 25, 26, 24, 25, 26, 27,
     28, 29, 30, 31, 29, 30, 31, 32, 30, 31, 32, 33, 31, 32, 33, 34,
     35, 36, 37, 38, 36, 37, 38, 39, 37, 38, 39, 40, 38, 39, 40, 41,
     0, 7, 14, 21, 7, 14, 21, 28, 14, 21, 28, 35,
     1, 8, 15, 22, 8, 15, 22, 29, 15, 22, 29, 36,
     2, 9, 16, 23, 9, 16, 23, 30, 16, 23, 30, 37,
     3, 10, 17, 24, 10, 17, 24, 31, 17, 24, 31, 38,
     4, 11, 18, 25, 11, 18, 25, 32, 18, 25, 32, 39,
     5, 12, 19, 26, 12, 19, 26, 33, 19, 26, 33, 40,
     6, 13, 20, 27, 13, 20, 27, 34, 20, 27, 34, 41,
     0, 8, 16, 24, 1, 9, 18, 26, 2, 10, 18, 26, 3, 11, 19, 27,
     7, 15, 23, 31, 8, 16, 24, 32, 9, 17, 25, 33, 10, 18, 26, 11,
     14, 22, 30, 38, 15, 23, 31, 39, 16, 24, 32, 40, 17, 25, 33, 41,
     3, 9, 15, 21, 4, 10, 16, 22, 5, 11, 17, 23, 6, 12, 18, 24,
     10, 16, 22, 28, 11, 17, 23, 29, 12, 18, 24, 30, 13, 19, 25, 31,
     17, 23, 29, 35, 18, 24, 30, 36, 19, 25, 31, 37, 20, 26, 32, 38 >>

\* LINE_LOOP of calculateWinner from entry i (counted from 0) on: the player
\* of the first four in a row of the table, or Empty when there is none
RECURSIVE lineLoop(_, _)
lineLoop(tiles, i) ==
  IF i >= Len(LineTable) THEN Empty
  ELSE LET player == tiles[LineTable[i + 1]]
       IN  IF /\ player # Empty
              /\ \A j \in 1..3 : tiles[LineTable[i + j + 1]] = player
           THEN player
           ELSE lineLoop(tiles, i + 4)

calculateWinner(s) ==
  LET found == lineLoop(s.Tiles, 0)
  IN  IF found # Empty THEN found
      ELSE IF \E i \in 0..(Cells - 1) : s.Tiles[i] = Empty THEN Empty
      ELSE Tie

\* CFPString: 43 characters, the tiles and the side to move; a value that is
\* none of the three leaves the zero rune
CFPString(s) ==
  [ i \in 1..(Cells + 1) |->
      IF i <= Cells
      THEN CASE s.Tiles[i - 1] = Player1 -> "1"
             [] s.Tiles[i - 1] = Player2 -> "2"
             [] s.Tiles[i - 1] = Empty -> "0"
             [] OTHER -> "nul"
      ELSE CASE s.Player = Player1 -> "1"
             [] s.Player = Player2 -> "2"
             [] OTHER -> "nul" ]

\* StateFromCFP: [st, err]; on an error the State filled so far is returned
StateFromCFP(p) ==
  IF Len(p) # Cells + 1 THEN [ st |-> ZeroState, err |-> "invalid" ]
  ELSE LET bad == { i \in 1..Cells : p[i] \notin { "0", "1", "2" } }
           stop == IF bad = {} THEN Cells + 1
                   ELSE CHOOSE i \in bad : \A j \in bad : i <= j
           tiles == [ i \in 0..(Cells - 1) |->
                        IF i + 1 >= stop THEN 0
                        ELSE CASE p[i + 1] = "0" -> Empty
                               [] p[i + 1] = "1" -> Player1
                               [] p[i + 1] = "2" -> Player2 ]
           filled == [ ZeroState EXCEPT !.Tiles = tiles ]
       IN  IF bad # {} THEN [ st |-> filled, err |-> "invalid" ]
           ELSE IF p[Cells + 1] \notin { "1", "2" }
           THEN [ st |-> filled, err |-> "invalid" ]
           ELSE LET placed == [ filled EXCEPT !.Player =
                                  IF p[Cells + 1] = "1" THEN Player1
                                  ELSE Player2 ]
                IN  [ st |-> [ placed EXCEPT !.Winner = calculateWinner(placed) ],
                      err |-> "ok" ]

(***************************************************************************)
(* Helpers for stating properties of boards                                *)
(***************************************************************************)
Tokens(tiles) == Cardinality({ i \in 0..(Cells - 1) : tiles[i] # Empty })
BoardFull(tiles) == \A i \in 0..(Cells - 1) : tiles[i] # Empty

\* the cell a token dropped in column c of tiles comes to rest in
RECURSIVE restCell(_, _, _)
restCell(tiles, c, row) ==
  IF row < 0 THEN -1
  ELSE IF tiles[c + Width * row] = Empty THEN c + Width * row
  ELSE restCell(tiles, c, row - 1)

Directions == { <<1, 0>>, <<0, 1>>, <<1, 1>>, <<1, -1>> }

\* cell lies on a straight run of four cells of player
OnRunOfFour(tiles, cell, player) ==
  LET x == cell % Width
      y == cell \div Width
  IN  \E d \in Directions : \E k \in 0..3 :
        \A j \in 0..3 :
          LET px == x + (j - k) * d[1]
              py == y + (j - k) * d[2]
          IN  /\ px >= 0 /\ px < Width /\ py >= 0 /\ py < Height
              /\ tiles[px + Width * py] = player

\* what an engine may answer on board s under script n
EngineMoves(s, n) ==
  LET k == Tokens(s.Tiles)
  IN  (IF k < FreePlies THEN 0..(Width - 1) ELSE {})
      \cup (IF k < Len(Scripts[n]) THEN { Scripts[n][k + 1] } ELSE {})
      \cup BadMoves

\* what an engine that plays legal moves answers: the move of its script
LegalScriptMoves(s, n) ==
  LET k == Tokens(s.Tiles)
  IN  IF k < Len(Scripts[n]) THEN { Scripts[n][k + 1] } ELSE {}

\* what an engine of the game runner answers: its script, or a bad move
ScriptMoves(s, n) == LegalScriptMoves(s, n) \cup BadMoves

(***************************************************************************)
(* State                                                                   *)
(***************************************************************************)
EngineIds == 0..(MaxEngines - 1)
\* every gameLoop task is started by a play command
MaxLoops == MaxCommands

VARIABLES
  script,           \* the scripted game the engines follow
  board,            \* SpecBoard: the board reached by successful NextState calls
  prevBoard,        \* SpecBoard: the receiver of the last NextState call
  lastCol,          \* SpecBoard: the column of the last NextState call
  lastRes,          \* SpecBoard: what the last NextState call returned
  engines,          \* Develop.engines: ids of the loaded engines
  nextEngineID,     \* Develop.nextEngineID
  player1EngineID,  \* Develop.player1EngineID
  player2EngineID,  \* Develop.player2EngineID
  hub,              \* position of the hub event loop (listenToClients)
  commands,         \* observer commands handled so far
  ready,            \* Engine.ready, per engine id
  thinking,         \* Engine.thinking, per engine id
  inflight,         \* driver calls in progress, per engine id
  wire,             \* what the game runner's driver calls wrote to each engine
  GamePlayer1,      \* Game.Player1 (engine id, NoEngine for nil)
  GamePlayer2,      \* Game.Player2
  Player1Status,    \* Game.Player1Status
  Player2Status,    \* Game.Player2Status
  State,            \* Game.State
  History,          \* Game.History
  HistoryIndex,     \* Game.HistoryIndex
  Running,          \* Game.Running
  loops,            \* the gameLoop tasks, by slot
  events,           \* events sent on Game.Events since the last Reset
  crashed,          \* the process died of a runtime panic
  lastCall,         \* SpecEngine: the last operation called on an engine handle
  drv,              \* SpecDriver: the goroutine calling into a CFPProtocol
  reader,           \* SpecDriver: the goroutine listenToEngine
  sent,             \* what the hub last sent to observers and engines
  server            \* SpecServer: the Server and its goroutines

boardVars == << board, prevBoard, lastCol, lastRes >>
hubVars ==
  << engines, nextEngineID, player1EngineID, player2EngineID, hub, commands >>
engineVars == << ready, thinking, inflight, wire >>
gameVars ==
  << GamePlayer1, GamePlayer2, Player1Status, Player2Status, State, History,
     HistoryIndex, Running >>
ghostVars == << events, crashed >>
driverVars == << lastCall, drv, reader >>
obsVars == << sent, server >>
vars ==
  << script, boardVars, hubVars, engineVars, gameVars, loops, ghostVars,
     driverVars, obsVars >>

NoEvents == [ GameOver |-> 0, NewState |-> 0, Error |-> 0 ]

\* nothing written yet: pos is, per engine, the last position written to it
\* since its last cfpnewgame (ZeroState: none); arg is, per turn loop slot,
\* the State passed to the Engine.Position call the task is in
NoWire ==
  [ pos |-> [ e \in EngineIds |-> ZeroState ],
    arg |-> [ l \in 1..MaxLoops |-> ZeroState ] ]

\* no operation has been called on an engine handle
NoCall ==
  [ op |-> "none", e |-> NoEngine,
    before |-> [ ready |-> FALSE, thinking |-> FALSE ],
    wasQuit |-> FALSE, call |-> FALSE, err |-> FALSE, quit |-> {} ]

\* NewCFPProtocol: nothing written, no goroutine listening.  stops counts
\* the stop commands written, answered the bestmove lines of the engine,
\* owed the isready commands the engine has not answered.
InitDriverVars ==
  /\ lastCall = NoCall
  /\ drv = [ pc |-> "new", op |-> "none", running |-> FALSE,
             setName |-> FALSE, setAuthor |-> FALSE, options |-> {},
             written |-> << >>,
             res |-> "none", move |-> 0, tag |-> 0, calls |-> 0,
             stops |-> 0, answered |-> 0, owed |-> 0, ack |-> 0 ]
  /\ reader = [ pc |-> "off", ch |-> "none", val |-> 0, tag |-> 0,
                line |-> << >>, seen |-> {}, atOk |-> {} ]

\* no line of an observer has been handled: the line, the answer to the
\* observer, what was written to the engine, the updateoption broadcast
NoRequest ==
  [ args |-> << >>, out |-> "none", written |-> << >>, bcast |-> << >> ]

\* NewDevelop, NewServer: nothing sent, nobody connected.  players is the
\* last players line broadcast (empty: none), seen the positions of the
\* position lines written to the observer that sent init, since the last
\* newgame line (empty: no init yet).
InitObsVars ==
  /\ sent = [ players |-> << >>, seen |-> << >>,
              unload |-> [ id |-> NoEngine, wasPlayer |-> FALSE,
                           err |-> FALSE ],
              req |-> NoRequest ]
  /\ server = [ clients |-> {}, connections |-> 0, nextClientID |-> 0,
                upgrading |-> 0, serverEvents |-> << >>, triggered |-> 0,
                received |-> << >>, responding |-> {} ]

\* NewDevelop, NewGame
InitGame ==
  /\ InitDriverVars
  /\ InitObsVars
  /\ engines = {}
  /\ nextEngineID = 0
  /\ player1EngineID = -1
  /\ player2EngineID = -1
  /\ hub = [ pc |-> "idle", e |-> NoEngine ]
  /\ commands = 0
  /\ ready = [ e \in EngineIds |-> FALSE ]
  /\ thinking = [ e \in EngineIds |-> FALSE ]
  /\ inflight = [ e \in EngineIds |-> 0 ]
  /\ wire = NoWire
  /\ GamePlayer1 = NoEngine
  /\ GamePlayer2 = NoEngine
  /\ Player1Status = 0
  /\ Player2Status = 0
  /\ State = NewState
  /\ History = [ i \in 0..(HistoryLen - 1) |->
                   IF i = 0 THEN NewState ELSE ZeroState ]
  /\ HistoryIndex = 0
  /\ Running = FALSE
  /\ loops = [ i \in 1..MaxLoops |-> [ pc |-> "none", e |-> NoEngine,
                                       move |-> 0 ] ]
  /\ events = NoEvents
  /\ crashed = FALSE

InitBoardVars ==
  /\ board = NewState
  /\ prevBoard = NewState
  /\ lastCol = 0
  /\ lastRes = [ st |-> NewState, err |-> "none" ]

(***************************************************************************)
(* SpecBoard: NextState applied to the boards of the scripted games        *)
(***************************************************************************)
InitBoard ==
  /\ script \in 1..Len(Scripts)
  /\ InitBoardVars
  /\ InitGame

ApplyColumn(c) ==
  LET r == NextState(board, c)
  IN  /\ prevBoard' = board
      /\ lastCol' = c
      /\ lastRes' = r
      /\ board' = IF r.err = "ok" THEN r.st ELSE board
      /\ UNCHANGED << script, driverVars, obsVars, hubVars, engineVars, gameVars, loops, ghostVars >>

NextBoard ==
  \E c \in EngineMoves(board, script) : ApplyColumn(c)

SpecBoard == InitBoard /\ [][NextBoard]_vars

(***************************************************************************)
(* Engine handle: the guards of Engine.NewGame, Position, Go, Stop and     *)
(* SetOption.  A call that passes its guards is in progress in the driver  *)
(* (inflight) until the driver returns.                                    *)
(***************************************************************************)
EngineEnter(e) == inflight' = [inflight EXCEPT ![e] = @ + 1]
EngineLeave(e) == inflight' = [inflight EXCEPT ![e] = @ - 1]

\* The operations of the handle h = [ready, thinking]: the handle after the
\* operation, and whether the operation called the driver (call); an
\* operation that does not call the driver returns an error.
EngineDebug(h) ==
  IF ~h.ready THEN [ h |-> h, call |-> FALSE ]
  ELSE [ h |-> h, call |-> TRUE ]

\* known: the option is one of e.Options
EngineSetOption(h, known) ==
  IF ~h.ready THEN [ h |-> h, call |-> FALSE ]
  ELSE IF ~known THEN [ h |-> h, call |-> FALSE ]
  ELSE [ h |-> h, call |-> TRUE ]

EngineNewGame(h) ==
  IF ~h.ready THEN [ h |-> h, call |-> FALSE ]
  ELSE [ h |-> h, call |-> TRUE ]

EnginePosition(h) ==
  IF ~h.ready THEN [ h |-> h, call |-> FALSE ]
  ELSE [ h |-> h, call |-> TRUE ]

\* Engine.Go without the guard on thinking
EngineGoUnguarded(h) ==
  IF ~h.ready THEN [ h |-> h, call |-> FALSE ]
  ELSE [ h |-> [h EXCEPT !.thinking = TRUE], call |-> TRUE ]

EngineGo(h) ==
  IF ~h.ready THEN [ h |-> h, call |-> FALSE ]
  ELSE IF h.thinking THEN [ h |-> h, call |-> FALSE ]
  ELSE [ h |-> [h EXCEPT !.thinking = TRUE], call |-> TRUE ]

EngineStop(h) ==
  IF ~h.ready THEN [ h |-> h, call |-> FALSE ]
  ELSE IF ~h.thinking THEN [ h |-> h, call |-> FALSE ]
  ELSE [ h |-> [h EXCEPT !.thinking = FALSE], call |-> TRUE ]

EngineQuit(h) ==
  IF ~h.ready THEN [ h |-> h, call |-> FALSE ]
  ELSE [ h |-> [h EXCEPT !.ready = FALSE], call |-> TRUE ]

EngineOps == { "Debug", "SetOption", "NewGame", "Position", "Go", "Stop", "Quit" }

\* operation op is called on the handle of engine e; the driver, if called,
\* returns without error iff ok
EngineCall(e, op, known, ok) ==
  LET h == [ ready |-> ready[e], thinking |-> thinking[e] ]
      r == CASE op = "Debug" -> EngineDebug(h)
             [] op = "SetOption" -> EngineSetOption(h, known)
             [] op = "NewGame" -> EngineNewGame(h)
             [] op = "Position" -> EnginePosition(h)
             [] op = "Go" -> EngineGo(h)
             [] op = "Stop" -> EngineStop(h)
             [] op = "Quit" -> EngineQuit(h)
  IN  /\ ~crashed
      /\ e \in engines
      /\ ready' = [ready EXCEPT ![e] = r.h.ready]
      /\ thinking' = [thinking EXCEPT ![e] = r.h.thinking]
      /\ lastCall' =
           [ op |-> op, e |-> e, before |-> h,
             wasQuit |-> e \in lastCall.quit,
             call |-> r.call, err |-> ~r.call \/ ~ok,
             quit |-> IF op = "Quit" /\ r.call THEN lastCall.quit \cup { e }
                      ELSE lastCall.quit ]
      /\ UNCHANGED << script, boardVars, hubVars, inflight, wire, gameVars, loops,
                      ghostVars, drv, reader, obsVars >>

(***************************************************************************)
(* Session hub: the commands of listenToClients that drive the game        *)
(***************************************************************************)
HubIdle == hub.pc = "idle" /\ ~crashed
\* the scripted game the engines of SpecRace play: the horizontal four
RaceScripts == { 4 }
CommandLimit == IF script \in RaceScripts THEN MaxRaceCommands ELSE MaxCommands
Command == HubIdle /\ commands < CommandLimit /\ commands' = commands + 1

\* loadEngine with a successful handshake
LoadEngine ==
  /\ Command
  /\ nextEngineID < MaxEngines
  /\ engines' = engines \cup { nextEngineID }
  /\ ready' = [ready EXCEPT ![nextEngineID] = TRUE]
  /\ nextEngineID' = nextEngineID + 1
  /\ UNCHANGED << script, driverVars, obsVars, boardVars, player1EngineID, player2EngineID, hub,
                  thinking, inflight, wire, gameVars, loops, ghostVars >>

\* Game.SetPlayer1 / Game.SetPlayer2 on a non-nil engine, game not running
SetPlayer1Status(e) == IF e = GamePlayer2 THEN Player2Status ELSE -1
SetPlayer2Status(e, p1) == IF e = p1 THEN Player1Status ELSE -1

\* setPlayers(p1, p2)
SetPlayers(p1, p2) ==
  /\ Command
  /\ (p1 # -1 => p1 \in engines)
  /\ (p2 # -1 => p2 \in engines)
  /\ ~Running
  /\ (p1 # -1 \/ p2 # -1)
  /\ LET g1 == IF p1 # -1 THEN p1 ELSE GamePlayer1
         s1 == IF p1 # -1 THEN SetPlayer1Status(p1) ELSE Player1Status
     IN  /\ GamePlayer1' = g1
         /\ Player1Status' = s1
         /\ player1EngineID' = IF p1 # -1 THEN p1 ELSE player1EngineID
         /\ GamePlayer2' = IF p2 # -1 THEN p2 ELSE GamePlayer2
         /\ Player2Status' =
              IF p2 # -1 THEN (IF p2 = g1 THEN s1 ELSE -1) ELSE Player2Status
         /\ player2EngineID' = IF p2 # -1 THEN p2 ELSE player2EngineID
  /\ sent' = [sent EXCEPT !.players = << p1, p2 >>]
  /\ UNCHANGED << script, driverVars, server, boardVars, engines, nextEngineID, hub, engineVars,
                  State, History, HistoryIndex, Running, loops, ghostVars >>

\* initRequest: the snapshot sent to the requesting observer (the engine
\* lines apart): the players line, the number of position lines, whether
\* play is sent, the winner of the gameover line (Empty: no such line)
initRequest ==
  [ players |-> << player1EngineID, player2EngineID >>,
    positions |-> HistoryIndex + 1,
    play |-> Running,
    gameover |-> State.Winner ]

\* an observer sends init: initRequest answers it with the history
InitRequest ==
  /\ HubIdle
  /\ sent.seen = << >>
  /\ sent' = [sent EXCEPT !.seen =
                [ i \in 1..initRequest.positions |-> History[i - 1] ]]
  /\ UNCHANGED << script, driverVars, server, boardVars, hubVars, engineVars,
                  gameVars, loops, ghostVars >>

\* newGame: Game.Reset, Game.Position(NewState()); the newgame and position
\* lines are broadcast
ResetGame ==
  /\ Command
  /\ ~Running
  /\ State' = NewState
  /\ History' = [ i \in 0..(HistoryLen - 1) |->
                    IF i = 0 THEN NewState ELSE ZeroState ]
  /\ HistoryIndex' = 0
  /\ Player1Status' = -1
  /\ Player2Status' = -1
  /\ events' = NoEvents
  /\ sent' = [sent EXCEPT !.seen = IF @ = << >> THEN @ ELSE << NewState >>]
  /\ UNCHANGED << script, driverVars, server, boardVars, engines, nextEngineID, player1EngineID,
                  player2EngineID, hub, engineVars, GamePlayer1, GamePlayer2,
                  Running, loops, crashed >>

\* a gameLoop task: where it is, the engine of the call it is in (or of the
\* turn), the move Stop returned to the turn (0 before, and when Stop fails)
Task(pc, e, move) == [ pc |-> pc, e |-> e, move |-> move ]
FreeSlots == { i \in DOMAIN loops : loops[i].pc = "none" }

\* play: Game.Play
Play ==
  /\ Command
  /\ ~Running
  /\ GamePlayer1 # NoEngine /\ GamePlayer2 # NoEngine
  /\ Running' = TRUE
  /\ FreeSlots # {}
  /\ LET l == CHOOSE i \in FreeSlots : \A j \in FreeSlots : i <= j
     IN  loops' = [loops EXCEPT ![l] = Task("start", NoEngine, 0)]
  /\ UNCHANGED << script, driverVars, obsVars, boardVars, engines, nextEngineID, player1EngineID,
                  player2EngineID, hub, engineVars, GamePlayer1, GamePlayer2,
                  Player1Status, Player2Status, State, History, HistoryIndex,
                  ghostVars >>

\* pause: Game.Pause up to the send on PauseSignal
PauseBegin ==
  /\ Command
  /\ Running
  /\ Running' = FALSE
  /\ hub' = [ pc |-> "pause", e |-> NoEngine ]
  /\ UNCHANGED << script, driverVars, obsVars, boardVars, engines, nextEngineID, player1EngineID,
                  player2EngineID, engineVars, GamePlayer1, GamePlayer2,
                  Player1Status, Player2Status, State, History, HistoryIndex,
                  loops, ghostVars >>

\* setOption on a loaded engine: Engine.SetOption up to the driver's write
SetOptionBegin(e) ==
  /\ HubIdle
  /\ e \in engines
  /\ ready[e]
  /\ EngineEnter(e)
  /\ hub' = [ pc |-> "setoption", e |-> e ]
  /\ UNCHANGED << script, driverVars, obsVars, boardVars, engines, nextEngineID, player1EngineID,
                  player2EngineID, commands, ready, thinking, wire, gameVars,
                  loops, ghostVars >>

\* the driver's SetOption returns
SetOptionEnd ==
  /\ hub.pc = "setoption" /\ ~crashed
  /\ EngineLeave(hub.e)
  /\ hub' = [ pc |-> "idle", e |-> NoEngine ]
  /\ UNCHANGED << script, driverVars, obsVars, boardVars, engines, nextEngineID, player1EngineID,
                  player2EngineID, commands, ready, thinking, wire, gameVars,
                  loops, ghostVars >>

(***************************************************************************)
(* Game runner: gameLoop and playTurn.  A task runs from one blocking      *)
(* point (a driver call, the select, a send on Events) to the next in one  *)
(* step; the Stage operators follow the code between two blocking points   *)
(* and give the point the task arrives at, with the statuses it wrote.     *)
(***************************************************************************)
Arrival(pc, e, move, s1, s2) ==
  [ pc |-> pc, e |-> e, move |-> move, s1 |-> s1, s2 |-> s2 ]

currentPlayer == IF State.Player = Player1 THEN GamePlayer1 ELSE GamePlayer2

\* playTurn: currentPlayer, then Engine.Go up to the driver's Go
StageGo(s1, s2) ==
  LET e == currentPlayer
  IN  IF e = NoEngine \/ ~ready[e] \/ thinking[e]
      THEN Arrival("fail", NoEngine, 0, s1, s2)
      ELSE Arrival("go", e, 0, s1, s2)

\* updateEngineState of player 2: Engine.Position if status < HistoryIndex;
\* then updateEngineStates sets Player2Status
StagePosition2(e, status, s1, s2) ==
  IF status < HistoryIndex
  THEN IF ready[e] THEN Arrival("sending2", e, 0, s1, s2)
       ELSE Arrival("fail", NoEngine, 0, s1, s2)
  ELSE StageGo(s1, HistoryIndex)

\* updateEngineState of player 2: nil check, Engine.NewGame if status is -1
StageUpdate2(s1, s2) ==
  LET e == GamePlayer2
  IN  IF e = NoEngine THEN Arrival("fail", NoEngine, 0, s1, s2)
      ELSE IF s2 = -1
      THEN IF ready[e] THEN Arrival("newgame2", e, 0, s1, s2)
           ELSE Arrival("fail", NoEngine, 0, s1, s2)
      ELSE StagePosition2(e, s2, s1, s2)

\* updateEngineStates: Player1Status is set; the same engine twice, or on to
\* player 2
StageStatus1(s2) ==
  IF GamePlayer1 = GamePlayer2
  THEN StageGo(HistoryIndex, HistoryIndex)
  ELSE StageUpdate2(HistoryIndex, s2)

\* updateEngineState of player 1: Engine.Position if status < HistoryIndex
StagePosition1(e, status, s1, s2) ==
  IF status < HistoryIndex
  THEN IF ready[e] THEN Arrival("sending1", e, 0, s1, s2)
       ELSE Arrival("fail", NoEngine, 0, s1, s2)
  ELSE StageStatus1(s2)

\* updateEngineState of player 1: nil check, Engine.NewGame if status is -1
StageUpdate1(s1, s2) ==
  LET e == GamePlayer1
  IN  IF e = NoEngine THEN Arrival("fail", NoEngine, 0, s1, s2)
      ELSE IF s1 = -1
      THEN IF ready[e] THEN Arrival("newgame1", e, 0, s1, s2)
           ELSE Arrival("fail", NoEngine, 0, s1, s2)
      ELSE StagePosition1(e, s1, s1, s2)

\* gameLoop: the loop condition, then playTurn
StageGuard ==
  IF State.Winner = Empty /\ Running
  THEN StageUpdate1(Player1Status, Player2Status)
  ELSE Arrival("over", NoEngine, 0, Player1Status, Player2Status)

\* Engine.Stop up to the driver's Stop
StageStop(e, pc) ==
  IF ~ready[e] \/ ~thinking[e]
  THEN Arrival("fail", NoEngine, 0, Player1Status, Player2Status)
  ELSE Arrival(pc, e, 0, Player1Status, Player2Status)

\* playTurn after Stop returned move: NextState, then the history
StageApply(move) ==
  LET r == NextState(State, move)
  IN  IF r.err = "panic" THEN [ pc |-> "panic", st |-> State, append |-> FALSE ]
      ELSE IF r.err # "ok" THEN [ pc |-> "fail", st |-> r.st, append |-> FALSE ]
      ELSE IF HistoryIndex + 1 >= HistoryLen
      THEN [ pc |-> "panic", st |-> r.st, append |-> TRUE ]
      ELSE [ pc |-> "emit", st |-> r.st, append |-> TRUE ]

InCall == { "newgame1", "sending1", "newgame2", "sending2", "go", "stop",
            "pausestop" }

\* task l leaves the driver call on engine left (NoEngine: none) and arrives
\* at a
Arrive(l, a, left) ==
  /\ loops' = [loops EXCEPT ![l] = Task(a.pc, a.e, a.move)]
  /\ Player1Status' = a.s1
  /\ Player2Status' = a.s2
  /\ thinking' =
       IF a.pc = "go" THEN [thinking EXCEPT ![a.e] = TRUE]
       ELSE IF a.pc \in { "stop", "pausestop" }
       THEN [thinking EXCEPT ![a.e] = FALSE]
       ELSE thinking
  /\ inflight' =
       [ x \in EngineIds |->
           inflight[x] + (IF a.pc \in InCall /\ x = a.e THEN 1 ELSE 0)
                       - (IF x = left THEN 1 ELSE 0) ]
  /\ wire' =
       [ pos |-> [ x \in EngineIds |->
                    IF x # left \/ "wrote" \notin DOMAIN a THEN wire.pos[x]
                    ELSE IF a.wrote = "cfpnewgame" THEN ZeroState
                    ELSE wire.arg[l] ],
         arg |-> [wire.arg EXCEPT ![l] =
                    IF a.pc \in { "sending1", "sending2" } THEN State
                    ELSE ZeroState] ]

At(l, pc) == loops[l].pc = pc /\ ~crashed
\* the driver call the task leaves wrote its command to the engine
Wrote(cmd) == [ wrote |-> cmd ]
Failed == Arrival("fail", NoEngine, 0, Player1Status, Player2Status)

\* the task started by Play runs to its first blocking point
LoopStart(l) ==
  /\ At(l, "start")
  /\ Arrive(l, StageGuard, NoEngine)
  /\ UNCHANGED << script, driverVars, obsVars, boardVars, hubVars, ready, GamePlayer1, GamePlayer2,
                  State, History, HistoryIndex, Running, ghostVars >>

\* the driver's NewGame returns to updateEngineState of player k
NewGameReturn(l, k, ok) ==
  /\ At(l, IF k = 1 THEN "newgame1" ELSE "newgame2")
  /\ LET e == loops[l].e
     IN  Arrive(l, IF ~ok THEN Failed
                   ELSE Wrote("cfpnewgame") @@
                        (IF k = 1
                         THEN StagePosition1(e, -1, Player1Status, Player2Status)
                         ELSE StagePosition2(e, -1, Player1Status, Player2Status)),
                e)
  /\ UNCHANGED << script, driverVars, obsVars, boardVars, hubVars, ready, GamePlayer1, GamePlayer2,
                  State, History, HistoryIndex, Running, ghostVars >>

\* the driver's Position returns to updateEngineState of player k
PositionReturn(l, k, ok) ==
  /\ At(l, IF k = 1 THEN "sending1" ELSE "sending2")
  /\ Arrive(l, IF ~ok THEN Failed
               ELSE Wrote("position") @@
                    (IF k = 1 THEN StageStatus1(Player2Status)
                     ELSE StageGo(Player1Status, HistoryIndex)),
            loops[l].e)
  /\ UNCHANGED << script, driverVars, obsVars, boardVars, hubVars, ready, GamePlayer1, GamePlayer2,
                  State, History, HistoryIndex, Running, ghostVars >>

\* the driver's Go returns; playTurn waits in the select
GoReturn(l, ok) ==
  /\ At(l, "go")
  /\ Arrive(l, IF ~ok THEN Failed
               ELSE Arrival("select", loops[l].e, 0, Player1Status,
                            Player2Status),
            loops[l].e)
  /\ UNCHANGED << script, driverVars, obsVars, boardVars, hubVars, ready, GamePlayer1, GamePlayer2,
                  State, History, HistoryIndex, Running, ghostVars >>

\* playTurn: the select takes the timer; Engine.Stop for the move
TimerFires(l) ==
  /\ At(l, "select")
  /\ Arrive(l, StageStop(loops[l].e, "stop"), NoEngine)
  /\ UNCHANGED << script, driverVars, obsVars, boardVars, hubVars, ready, GamePlayer1, GamePlayer2,
                  State, History, HistoryIndex, Running, ghostVars >>

\* playTurn: the select takes the pause signal, Game.Pause returns;
\* Engine.Stop for the move that is dropped
PauseSignal(l) ==
  /\ At(l, "select")
  /\ hub.pc = "pause"
  /\ hub' = [ pc |-> "idle", e |-> NoEngine ]
  /\ Arrive(l, StageStop(loops[l].e, "pausestop"), NoEngine)
  /\ UNCHANGED << script, driverVars, obsVars, boardVars, engines, nextEngineID, player1EngineID,
                  player2EngineID, commands, ready, GamePlayer1, GamePlayer2,
                  State, History, HistoryIndex, Running, ghostVars >>

\* the driver's Stop returns the engine's bestmove m, or times out; the move
\* is applied
StopReturn(l, ok, m) ==
  /\ At(l, "stop")
  /\ LET a == StageApply(m)
     IN  IF ~ok
         THEN /\ Arrive(l, Failed, loops[l].e)
              /\ UNCHANGED << State, History, HistoryIndex, crashed >>
         ELSE /\ Arrive(l, Arrival(a.pc, NoEngine, m, Player1Status,
                                   Player2Status), loops[l].e)
              /\ State' = a.st
              /\ HistoryIndex' = IF a.append THEN HistoryIndex + 1
                                 ELSE HistoryIndex
              /\ History' = IF a.pc = "emit"
                            THEN [History EXCEPT ![HistoryIndex + 1] = a.st]
                            ELSE History
              /\ crashed' = (a.pc = "panic")
  /\ UNCHANGED << script, driverVars, obsVars, boardVars, hubVars, ready, GamePlayer1, GamePlayer2,
                  Running, events >>

\* the driver's Stop returns after a pause: playTurn returns nil
PauseStopReturn(l, ok) ==
  /\ At(l, "pausestop")
  /\ Arrive(l, IF ~ok THEN Failed
               ELSE Arrival("emit", NoEngine, 0, Player1Status,
                            Player2Status),
            loops[l].e)
  /\ UNCHANGED << script, driverVars, obsVars, boardVars, hubVars, ready, GamePlayer1, GamePlayer2,
                  State, History, HistoryIndex, Running, ghostVars >>

\* gameLoop: NewStateEvent after a turn without error, then the loop
\* condition and the next turn; listenToGame broadcasts the position line
EmitNewState(l) ==
  /\ At(l, "emit")
  /\ events' = [events EXCEPT !.NewState = @ + 1]
  /\ sent' = [sent EXCEPT !.seen = IF @ = << >> THEN @ ELSE Append(@, State)]
  /\ Arrive(l, StageGuard, NoEngine)
  /\ UNCHANGED << script, driverVars, server, boardVars, hubVars, ready, GamePlayer1, GamePlayer2,
                  State, History, HistoryIndex, Running, crashed >>

\* the task ends: g.Running = false
LoopEnd(l) ==
  /\ Running' = FALSE
  /\ loops' = [loops EXCEPT ![l] = Task("none", NoEngine, 0)]
  /\ UNCHANGED << script, driverVars, obsVars, boardVars, hubVars, engineVars, GamePlayer1,
                  GamePlayer2, Player1Status, Player2Status, State, History,
                  HistoryIndex, crashed >>

\* gameLoop: GameOverEvent after the loop
EmitGameOver(l) ==
  /\ At(l, "over")
  /\ events' = [events EXCEPT !.GameOver = @ + 1]
  /\ LoopEnd(l)

\* gameLoop: ErrorEvent after a failed turn
EmitError(l) ==
  /\ At(l, "fail")
  /\ events' = [events EXCEPT !.Error = @ + 1]
  /\ LoopEnd(l)

(***************************************************************************)
(* Spec: the hub's commands and the turn loops, interleaved                 *)
(***************************************************************************)
\* the scripted games the engines of Spec play: all threes, two columns
GameScripts == { 2, 3 }

Init ==
  /\ script \in GameScripts
  /\ InitBoardVars
  /\ InitGame

PlayerIds == EngineIds \cup { -1 }

\* the steps of the turn loops, but for those of a pause, of a move and of
\* the end of the game
TurnStep ==
  \/ \E l \in DOMAIN loops : LoopStart(l)
  \/ \E l \in DOMAIN loops, k \in 1..2, ok \in BOOLEAN : NewGameReturn(l, k, ok)
  \/ \E l \in DOMAIN loops, k \in 1..2, ok \in BOOLEAN : PositionReturn(l, k, ok)
  \/ \E l \in DOMAIN loops, ok \in BOOLEAN : GoReturn(l, ok)
  \/ \E l \in DOMAIN loops : TimerFires(l)
  \/ \E l \in DOMAIN loops : StopReturn(l, FALSE, 0)
  \/ \E l \in DOMAIN loops : EmitNewState(l)
  \/ \E l \in DOMAIN loops : EmitError(l)

Next ==
  \/ LoadEngine
  \/ \E p1 \in PlayerIds, p2 \in PlayerIds : SetPlayers(p1, p2)
  \/ ResetGame
  \/ Play
  \/ PauseBegin
  \/ \E e \in EngineIds : SetOptionBegin(e)
  \/ SetOptionEnd
  \/ \E l \in DOMAIN loops : PauseSignal(l)
  \/ \E l \in DOMAIN loops, ok \in BOOLEAN : PauseStopReturn(l, ok)
  \/ \E l \in DOMAIN loops, m \in ScriptMoves(State, script) :
       StopReturn(l, TRUE, m)
  \/ \E l \in DOMAIN loops : EmitGameOver(l)
  \/ TurnStep

Spec == Init /\ [][Next]_vars

\* SpecDraw: the engines play the 42 legal moves of the draw, the observer
\* never pauses.  No step of it ends a game: the loop condition of gameLoop
\* stays true on every board of the draw.
InitDraw ==
  /\ script = 1
  /\ InitBoardVars
  /\ InitGame

NextDraw ==
  \/ LoadEngine
  \/ \E p1 \in PlayerIds, p2 \in PlayerIds : SetPlayers(p1, p2)
  \/ ResetGame
  \/ Play
  \/ \E e \in EngineIds : SetOptionBegin(e)
  \/ SetOptionEnd
  \/ \E l \in DOMAIN loops, m \in LegalScriptMoves(State, script) :
       StopReturn(l, TRUE, m)
  \/ TurnStep

SpecDraw == InitDraw /\ [][NextDraw]_vars

\* SpecThrees: as SpecDraw, but every engine answers every stop with column 3
InitThrees ==
  /\ script = 2
  /\ InitBoardVars
  /\ InitGame

SpecThrees == InitThrees /\ [][NextDraw]_vars

\* SpecObserver: as SpecThrees, and an observer sends init at any time
NextObserver ==
  \/ LoadEngine
  \/ \E p1 \in PlayerIds, p2 \in PlayerIds : SetPlayers(p1, p2)
  \/ ResetGame
  \/ Play
  \/ InitRequest
  \/ \E l \in DOMAIN loops, m \in LegalScriptMoves(State, script) :
       StopReturn(l, TRUE, m)
  \/ TurnStep

SpecObserver == InitThrees /\ [][NextObserver]_vars

\* SpecRace: the observer's setplayers, newgame, play and pause commands
\* against the turn loops, over longer command sequences.  The engines play
\* the legal moves of one game and answer every command in time, but for
\* the stop of a pause; no option is set.
InitRace ==
  /\ script \in RaceScripts
  /\ InitBoardVars
  /\ InitGame

NextRace ==
  \/ LoadEngine
  \/ \E p1 \in PlayerIds, p2 \in PlayerIds : SetPlayers(p1, p2)
  \/ ResetGame
  \/ Play
  \/ PauseBegin
  \/ \E l \in DOMAIN loops : LoopStart(l)
  \/ \E l \in DOMAIN loops, k \in 1..2 : NewGameReturn(l, k, TRUE)
  \/ \E l \in DOMAIN loops, k \in 1..2 : PositionReturn(l, k, TRUE)
  \/ \E l \in DOMAIN loops : GoReturn(l, TRUE)
  \/ \E l \in DOMAIN loops : TimerFires(l)
  \/ \E l \in DOMAIN loops : PauseSignal(l)
  \/ \E l \in DOMAIN loops, ok \in BOOLEAN : PauseStopReturn(l, ok)
  \/ \E l \in DOMAIN loops, m \in LegalScriptMoves(State, script) :
       StopReturn(l, TRUE, m)
  \/ \E l \in DOMAIN loops : EmitNewState(l)
  \/ \E l \in DOMAIN loops : EmitGameOver(l)
  \/ \E l \in DOMAIN loops : EmitError(l)

SpecRace == InitRace /\ [][NextRace]_vars

(***************************************************************************)
(* CFPProtocol: the driver of one engine process.  A line of the engine    *)
(* is the sequence of its space-separated tokens (strings.Split).          *)
(***************************************************************************)
MaxCalls == 3

\* the lines the engine writes in the model; every token is lower-case, so
\* strings.ToLower leaves it as it is, and every option is a spin option
Lines ==
  { << "id", "name", "x" >>, << "id", "author", "y" >>, << "id", "name" >>,
    << "id" >>, << "cfpok" >>, << "readyok" >>, << "bestmove", "3" >>,
    << "bestmove" >>, << "bestmove", "x" >>, << "hello" >>, << "" >>,
    << "option", "name", "x", "type" >>,
    << "option", "name", "x", "type", "spin", "default", "3", "min", "0",
       "max", "5" >>,
    << "option", "name", "x", "type", "spin", "default", "10", "min", "0",
       "max", "5" >>,
    << "option", "name", "x", "type", "spin", "default", "3", "min", "5",
       "max", "0" >>,
    << "option", "name", "x", "type", "spin", "default", "y", "min", "0",
       "max", "5" >>,
    << "option", "name", "x", "type", "spin", "default", "3", "max", "5" >> }

\* strconv.Atoi on the value of a parameter (its tokens joined by spaces)
Atoi(value) ==
  LET numerals == ("0" :> 0) @@ ("1" :> 1) @@ ("3" :> 3) @@ ("5" :> 5)
                    @@ ("9" :> 9) @@ ("10" :> 10)
  IN  IF Len(value) = 1 /\ value[1] \in DOMAIN numerals
      THEN [ err |-> FALSE, num |-> numerals[value[1]] ]
      ELSE [ err |-> TRUE, num |-> 0 ]

\* the parameters of an option line, each with the index of its keyword
extractParameters(args) ==
  LET identifiers == { "name", "type", "default", "min", "max", "var" }
      indexes == { i \in DOMAIN args : args[i] \in identifiers }
      endIndex(i) ==
        IF \E j \in indexes : j > i
        THEN CHOOSE j \in indexes :
               j > i /\ \A k \in indexes : k > i => j <= k
        ELSE Len(args) + 1
  IN  { [ at |-> i, name |-> args[i],
          value |-> SubSeq(args, i + 1, endIndex(i) - 1) ] : i \in indexes }

\* spinOption: an error if a min, max or default is not a number or if one
\* of name, min, max, default is missing; each field is the last one given
spinOption(args) ==
  LET parameters == extractParameters(args)
      named(n) == { v \in parameters : v.name = n }
      last(n) == CHOOSE v \in named(n) : \A w \in named(n) : w.at <= v.at
  IN  IF \E v \in parameters :
           v.name \in { "min", "max", "default" } /\ Atoi(v.value).err
      THEN [ err |-> TRUE, option |-> << >> ]
      ELSE IF \E n \in { "name", "min", "max", "default" } : named(n) = {}
      THEN [ err |-> TRUE, option |-> << >> ]
      ELSE [ err |-> FALSE,
             option |-> [ Name |-> last("name").value,
                          Min |-> Atoi(last("min").value).num,
                          Max |-> Atoi(last("max").value).num,
                          Value |-> Atoi(last("default").value).num ] ]

\* receivedOptionCommand: what the reader does with the arguments of an
\* option line; args[typeIndex+1] past the end of args is a runtime panic
receivedOptionCommand(args) ==
  LET types == { i \in DOMAIN args : args[i] = "type" }
      typeIndex == CHOOSE i \in types : \A j \in types : i <= j
  IN  IF types = {} THEN [ do |-> "drop" ]
      ELSE IF typeIndex + 1 > Len(args) THEN [ do |-> "panic" ]
      ELSE IF args[typeIndex + 1] = "spin"
      THEN IF spinOption(args).err THEN [ do |-> "drop" ]
           ELSE [ do |-> "send", ch |-> "option",
                  val |-> spinOption(args).option ]
      ELSE [ do |-> "drop" ]

receivedIDCommand(args) ==
  IF Len(args) < 2 THEN [ do |-> "drop" ]
  ELSE IF args[1] = "name" THEN [ do |-> "send", ch |-> "name", val |-> 0 ]
  ELSE IF args[1] = "author" THEN [ do |-> "send", ch |-> "author", val |-> 0 ]
  ELSE [ do |-> "drop" ]

receivedBestMoveCommand(args) ==
  IF Len(args) < 1 THEN [ do |-> "drop" ]
  ELSE IF Atoi(<< args[1] >>).err THEN [ do |-> "drop" ]
  ELSE [ do |-> "send", ch |-> "bestmove", val |-> Atoi(<< args[1] >>).num ]

\* receivedCommand: drop the line, block sending on a channel, or panic
receivedCommand(msg) ==
  CASE msg[1] = "id" -> receivedIDCommand(Tail(msg))
    [] msg[1] = "cfpok" -> [ do |-> "send", ch |-> "cfpok", val |-> 0 ]
    [] msg[1] = "readyok" -> [ do |-> "send", ch |-> "readyok", val |-> 0 ]
    [] msg[1] = "bestmove" -> receivedBestMoveCommand(Tail(msg))
    [] msg[1] = "option" -> receivedOptionCommand(Tail(msg))
    [] OTHER -> [ do |-> "drop" ]

\* listenToEngine reads the next line of the engine.  The engine answers an
\* isready with one readyok and a stop with one bestmove and writes any
\* other line at any time; tag is the stop a bestmove answers, or the
\* isready (the call that wrote it) a readyok answers.
ReaderScan(msg) ==
  LET r == receivedCommand(msg)
      kind == IF Len(msg) >= 3 /\ msg[1] = "id" THEN { msg[2] }
              ELSE IF msg[1] = "cfpok" THEN { "cfpok" } ELSE {}
  IN  /\ ~crashed
      /\ reader.pc = "scan"
      /\ drv.pc \in { "hs", "idle", "ready", "best" }
      /\ msg[1] = "readyok" => drv.owed > 0
      /\ msg = << "bestmove", "3" >> => drv.answered < drv.stops
      /\ reader' =
           [ pc |-> IF r.do = "drop" THEN "scan" ELSE r.do,
             ch |-> IF r.do = "send" THEN r.ch ELSE "none",
             val |-> IF r.do = "send" THEN r.val ELSE 0,
             tag |-> IF r.do = "send" /\ r.ch = "bestmove"
                     THEN drv.answered + 1
                     ELSE IF r.do = "send" /\ r.ch = "readyok"
                     THEN drv.calls - drv.owed + 1 ELSE 0,
             line |-> msg,
             seen |-> reader.seen \cup kind,
             atOk |-> IF msg[1] = "cfpok" /\ "cfpok" \notin reader.seen
                      THEN reader.seen ELSE reader.atOk ]
      /\ drv' = [drv EXCEPT
           !.owed = IF msg[1] = "readyok" THEN @ - 1 ELSE @,
           !.answered = IF msg = << "bestmove", "3" >> THEN @ + 1 ELSE @]
      /\ crashed' = (r.do = "panic")
      /\ UNCHANGED << script, boardVars, hubVars, engineVars, gameVars,
                      loops, events, lastCall, obsVars >>

\* a receive on channel ch takes the value the reader is sending
Sending(ch) == reader.pc = "send" /\ reader.ch = ch

Received == [reader EXCEPT !.pc = "scan", !.ch = "none", !.val = 0, !.tag = 0]

DriverFrame ==
  UNCHANGED << script, boardVars, hubVars, engineVars, gameVars, loops,
               ghostVars, lastCall, obsVars >>

\* Handshake up to its select: the reader is started and cfp is written
HandshakeBegin ==
  /\ ~crashed
  /\ drv.pc = "new"
  /\ drv' = [drv EXCEPT !.pc = "hs", !.op = "Handshake", !.running = TRUE,
                        !.written = << "cfp" >>]
  /\ reader' = [reader EXCEPT !.pc = "scan"]
  /\ DriverFrame

\* the check of Handshake after its loop, without the author
HandshakeResultNoAuthor(setName, setAuthor) ==
  IF ~setName THEN "missing" ELSE "ok"

\* the check of Handshake after its loop
HandshakeResult(setName, setAuthor) ==
  IF ~setName \/ ~setAuthor THEN "missing" ELSE "ok"

\* one turn of the select of Handshake that receives from the reader
HandshakeRecv ==
  /\ ~crashed
  /\ drv.pc = "hs"
  /\ \E ch \in { "name", "author", "option", "cfpok" } :
       /\ Sending(ch)
       /\ drv' =
            CASE ch = "name" -> [drv EXCEPT !.setName = TRUE]
              [] ch = "author" -> [drv EXCEPT !.setAuthor = TRUE]
              [] ch = "option" ->
                   [drv EXCEPT !.options =
                      { o \in @ : o.Name # reader.val.Name }
                        \cup { reader.val }]
              [] ch = "cfpok" ->
                   [drv EXCEPT
                      !.running = FALSE,
                      !.res = HandshakeResult(drv.setName, drv.setAuthor),
                      !.pc = IF HandshakeResult(drv.setName, drv.setAuthor)
                                = "ok"
                             THEN "idle" ELSE "failed"]
  /\ reader' = Received
  /\ DriverFrame

\* the timer of Handshake fires
HandshakeTimeout ==
  /\ ~crashed
  /\ drv.pc = "hs"
  /\ drv' = [drv EXCEPT !.res = "timeout", !.pc = "failed"]
  /\ UNCHANGED reader
  /\ DriverFrame

DriverOps == { "NewGame", "Position", "Stop" }

\* NewGame, Position and Stop up to the select of waitForReady
CallBegin(op) ==
  /\ ~crashed
  /\ drv.pc = "idle"
  /\ drv.calls < MaxCalls
  /\ drv' = [drv EXCEPT !.pc = "ready", !.op = op, !.calls = @ + 1,
                        !.written = << "isready" >>, !.owed = @ + 1,
                        !.res = "none", !.move = 0, !.tag = 0, !.ack = 0]
  /\ UNCHANGED reader
  /\ DriverFrame

\* the command an operation writes once waitForReady has returned
CommandOf(op) ==
  CASE op = "NewGame" -> "cfpnewgame"
    [] op = "Position" -> "position"
    [] op = "Stop" -> "stop"

\* waitForReady receives readyok; the operation writes its command; NewGame
\* and Position return, Stop goes on to its select
ReadyRecv ==
  /\ ~crashed
  /\ drv.pc = "ready"
  /\ Sending("readyok")
  /\ drv' = [drv EXCEPT
       !.written = Append(@, CommandOf(drv.op)),
       !.pc = IF drv.op = "Stop" THEN "best" ELSE "idle",
       !.res = IF drv.op = "Stop" THEN "none" ELSE "ok",
       !.stops = IF drv.op = "Stop" THEN @ + 1 ELSE @,
       !.ack = reader.tag]
  /\ reader' = Received
  /\ DriverFrame

\* the timer of waitForReady fires: the operation returns "engine not ready"
ReadyTimeout ==
  /\ ~crashed
  /\ drv.pc = "ready"
  /\ drv' = [drv EXCEPT !.pc = "idle", !.res = "notready"]
  /\ UNCHANGED reader
  /\ DriverFrame

\* the select of Stop receives a best move
BestRecv ==
  /\ ~crashed
  /\ drv.pc = "best"
  /\ Sending("bestmove")
  /\ drv' = [drv EXCEPT !.pc = "idle", !.res = "ok", !.move = reader.val,
                        !.tag = reader.tag]
  /\ reader' = Received
  /\ DriverFrame

\* the timer of Stop fires
BestTimeout ==
  /\ ~crashed
  /\ drv.pc = "best"
  /\ drv' = [drv EXCEPT !.pc = "idle", !.res = "timeout"]
  /\ UNCHANGED reader
  /\ DriverFrame

\* SpecDriver: one goroutine calls Handshake and then NewGame, Position and
\* Stop on a CFPProtocol whose engine writes lines
NextDriver ==
  \/ HandshakeBegin
  \/ HandshakeRecv
  \/ HandshakeTimeout
  \/ \E op \in DriverOps : CallBegin(op)
  \/ ReadyRecv
  \/ ReadyTimeout
  \/ BestRecv
  \/ BestTimeout
  \/ \E msg \in Lines : ReaderScan(msg)

SpecDriver == Init /\ [][NextDriver]_vars

(***************************************************************************)
(* Develop: the requests of observers about engines and their options      *)
(***************************************************************************)
\* strconv.Itoa, and %d of fmt.Sprintf
Itoa(n) == CHOOSE w \in { "0", "1", "3", "5", "9", "10" } : Atoi(<< w >>).num = n

\* SliceIndex over the tokens of a line: the Go index of the first w, or -1
SliceIndex(args, w) ==
  IF \E i \in DOMAIN args : args[i] = w
  THEN (CHOOSE i \in DOMAIN args : args[i] = w /\ \A j \in 1..(i - 1) : args[j] # w) - 1
  ELSE -1

\* Engine.Options of every loaded engine, as Handshake stored it and as it
\* stays: two spinners, one of them declared with min > max, and a combo box
HandshakeOptions ==
  { spinOption(<< "name", "depth", "type", "spin", "default", "3", "min", "0",
                  "max", "5" >>).option,
    spinOption(<< "name", "bad", "type", "spin", "default", "3", "min", "5",
                  "max", "0" >>).option,
    [ Name |-> << "mode" >>, Vars |-> { "fast", "slow" }, Value |-> "fast" ] }

\* Develop.setOption without the check of a combo box value
setOptionNoVarsCheck(option, value) ==
  IF "Min" \in DOMAIN option
  THEN LET number == Atoi(value).num
           low == IF number < option.Min THEN option.Min ELSE number
           clamped == IF low > option.Max THEN option.Max ELSE low
       IN  IF Atoi(value).err
           THEN [ err |-> TRUE, outValue |-> "", newOption |-> option ]
           ELSE [ err |-> FALSE, outValue |-> Itoa(clamped),
                  newOption |-> [option EXCEPT !.Value = clamped] ]
  ELSE IF Len(value) = 1
       THEN [ err |-> FALSE, outValue |-> value[1],
              newOption |-> [option EXCEPT !.Value = value[1]] ]
       ELSE [ err |-> TRUE, outValue |-> "", newOption |-> option ]

\* Develop.setOption up to its call of Engine.SetOption, on a Spinner or a
\* ComboBox: the Option to send and the value to broadcast
setOption(option, value) ==
  IF "Min" \in DOMAIN option
  THEN LET number == Atoi(value).num
           low == IF number < option.Min THEN option.Min ELSE number
           clamped == IF low > option.Max THEN option.Max ELSE low
       IN  IF Atoi(value).err
           THEN [ err |-> TRUE, outValue |-> "", newOption |-> option ]
           ELSE [ err |-> FALSE, outValue |-> Itoa(clamped),
                  newOption |-> [option EXCEPT !.Value = clamped] ]
  ELSE IF Len(value) = 1 /\ value[1] \in option.Vars
       THEN [ err |-> FALSE, outValue |-> value[1],
              newOption |-> [option EXCEPT !.Value = value[1]] ]
       ELSE [ err |-> TRUE, outValue |-> "", newOption |-> option ]

\* setOptionRequest up to its call of setOption: a slice expression with
\* bounds out of order is a runtime panic
setOptionRequest(args) ==
  LET engineIDIndex == SliceIndex(args, "engineid")
      nameIndex == SliceIndex(args, "name")
      valueIndex == IF SliceIndex(args, "value") = -1 THEN Len(args)
                    ELSE SliceIndex(args, "value")
      value == SubSeq(args, valueIndex + 2, Len(args))
      engineID == Atoi(SubSeq(args, engineIDIndex + 2, nameIndex))
      name == SubSeq(args, nameIndex + 2, valueIndex)
      named == { o \in HandshakeOptions : o.Name = name }
  IN  IF nameIndex < engineIDIndex + 1 THEN [ do |-> "panic" ]
      ELSE IF engineID.err THEN [ do |-> "error" ]
      ELSE IF valueIndex < nameIndex + 1 THEN [ do |-> "panic" ]
      ELSE IF engineID.num \notin engines THEN [ do |-> "error" ]
      ELSE IF named = {} THEN [ do |-> "error" ]
      ELSE [ do |-> "set", e |-> engineID.num, name |-> name,
             option |-> CHOOSE o \in named : TRUE, value |-> value ]

\* optionsRequest: args[len(args)-1] of no arguments and the Options of an
\* engine that is not in d.engines (a nil *Engine) are runtime panics
optionsRequest(args) ==
  IF Len(args) = 0 THEN "panic"
  ELSE IF Atoi(<< args[Len(args)] >>).err THEN "error"
  ELSE IF Atoi(<< args[Len(args)] >>).num \notin engines THEN "panic"
  ELSE "options"

\* the lines observers send in the model
Requests ==
  { << "options", "engineid", "0" >>, << "options", "engineid", "9" >>,
    << "options" >>, << "options", "engineid", "x" >>,
    << "setoption", "engineid", "0", "name", "depth", "value", "3" >>,
    << "setoption", "engineid", "0", "name", "depth", "value", "10" >>,
    << "setoption", "engineid", "0", "name", "depth", "value", "x" >>,
    << "setoption", "engineid", "0", "name", "bad", "value", "3" >>,
    << "setoption", "engineid", "0", "name", "mode", "value", "slow" >>,
    << "setoption", "engineid", "0", "name", "mode", "value", "zzz" >>,
    << "setoption", "engineid", "0", "name", "nope", "value", "3" >>,
    << "setoption", "engineid", "9", "name", "depth", "value", "3" >>,
    << "setoption", "name", "X" >>, << "setoption", "engineid", "0" >>,
    << "setoption", "value", "3", "engineid", "0", "name", "depth" >>,
    << "hello" >> }

\* listenToClients handles an options or a setoption line (any other first
\* token of the model is unknown and ignored); ok: the driver's write of
\* setoption succeeds
ClientRequest(msg, ok) ==
  LET r == setOptionRequest(Tail(msg))
      o == setOption(r.option, r.value)
      h == EngineSetOption([ ready |-> ready[r.e], thinking |-> thinking[r.e] ],
                           TRUE)
      done == [ args |-> msg, out |-> "none", written |-> << >>,
                bcast |-> << >> ]
      answer ==
        CASE msg[1] = "options" ->
               IF optionsRequest(Tail(msg)) = "panic" THEN done
               ELSE [done EXCEPT !.out = optionsRequest(Tail(msg))]
          [] msg[1] = "setoption" ->
               IF r.do = "panic" THEN done
               ELSE IF r.do = "error" \/ o.err \/ ~h.call \/ ~ok
               THEN [done EXCEPT !.out = "error"]
               ELSE [done EXCEPT
                       !.written = << r.name,
                                      IF "Min" \in DOMAIN o.newOption
                                      THEN Itoa(o.newOption.Value)
                                      ELSE o.newOption.Value >>,
                       !.bcast = << r.e, r.name, o.outValue >>]
          [] OTHER -> done
  IN  /\ Command
      /\ sent' = [sent EXCEPT !.req = answer]
      /\ crashed' = \/ msg[1] = "options" /\ optionsRequest(Tail(msg)) = "panic"
                    \/ msg[1] = "setoption" /\ r.do = "panic"
      /\ UNCHANGED << script, driverVars, server, boardVars, engines,
                      nextEngineID, player1EngineID, player2EngineID, hub,
                      engineVars, gameVars, loops, events >>

\* unloadEngine(id); ok: the driver's Quit and the wait for the process
\* succeed.  Game.SetPlayer1(nil) and Game.SetPlayer2(nil) return an error.
UnloadEngine(id, ok) ==
  LET wasPlayer == player1EngineID = id \/ player2EngineID = id
      h == EngineQuit([ ready |-> ready[id], thinking |-> thinking[id] ])
      quit == ~wasPlayer /\ id \in engines
  IN  /\ Command
      /\ ready' = IF quit THEN [ready EXCEPT ![id] = h.h.ready] ELSE ready
      /\ engines' = IF quit /\ h.call /\ ok THEN engines \ { id } ELSE engines
      /\ sent' = [sent EXCEPT !.unload =
                    [ id |-> id, wasPlayer |-> wasPlayer,
                      err |-> ~(quit /\ h.call /\ ok) ]]
      /\ UNCHANGED << script, driverVars, server, boardVars, nextEngineID,
                      player1EngineID, player2EngineID, hub, thinking,
                      inflight, wire, gameVars, loops, ghostVars >>

\* SpecHub: observers load and unload engines, set the players and send
\* options and setoption lines; no game is played
NextHub ==
  \/ LoadEngine
  \/ \E p1 \in PlayerIds, p2 \in PlayerIds : SetPlayers(p1, p2)
  \/ \E id \in EngineIds, ok \in BOOLEAN : UnloadEngine(id, ok)
  \/ \E msg \in Requests, ok \in BOOLEAN : ClientRequest(msg, ok)

SpecHub == Init /\ [][NextHub]_vars

(***************************************************************************)
(* Server: the connections of observers and the broadcasts.  upgrading     *)
(* counts the wsEndpoint handlers between their check and their            *)
(* registration, triggered the events sent by TriggerEvent (an event is    *)
(* its number), received[c] is the events written to the socket of client *)
(* c, responding the clients Respond is writing an answer to, holding the  *)
(* read lock.                                                              *)
(***************************************************************************)
\* MaxConnections and EventBufferSize of the model (100 and 10 in the source)
MaxConnections == 1
EventBufferSize == 2
\* connection attempts and events of the model
MaxClients == 3
MaxEvents == 3

ServerFrame ==
  UNCHANGED << script, driverVars, sent, boardVars, hubVars, engineVars,
               gameVars, loops, ghostVars >>

\* wsEndpoint up to the upgrade: the check of the cap under the read lock
wsEndpointCheck ==
  /\ server.connections < MaxConnections
  /\ server.nextClientID + server.upgrading < MaxClients
  /\ server' = [server EXCEPT !.upgrading = @ + 1]
  /\ ServerFrame

\* wsEndpoint after the check: the upgrade (ok: it succeeds) and the
\* registration under the write lock
wsEndpointAdd(ok) ==
  /\ server.upgrading > 0
  /\ ok => server.responding = {}
  /\ server' =
       IF ~ok THEN [server EXCEPT !.upgrading = @ - 1]
       ELSE [server EXCEPT
               !.upgrading = @ - 1,
               !.clients = @ \cup { server.nextClientID },
               !.connections = @ + 1,
               !.nextClientID = @ + 1,
               !.received = (server.nextClientID :> << >>) @@ @]
  /\ ServerFrame

\* removeClient, called by socketListener when the socket of c fails
removeClient(c) ==
  /\ c \in server.clients
  /\ server.responding = {}
  /\ server' = [server EXCEPT
       !.clients = @ \ { c },
       !.connections = @ - 1,
       !.received = [ d \in server.clients \ { c } |-> server.received[d] ]]
  /\ ServerFrame

\* TriggerEvent: a send on serverEvents, which blocks while the buffer is full
TriggerEvent ==
  /\ Len(server.serverEvents) < EventBufferSize
  /\ server.triggered < MaxEvents
  /\ server' = [server EXCEPT
       !.serverEvents = Append(@, server.triggered + 1),
       !.triggered = @ + 1]
  /\ ServerFrame

\* a receive that takes the newest event of the buffer
ReceiveNewest(q) == [ evt |-> q[Len(q)], rest |-> SubSeq(q, 1, Len(q) - 1) ]

\* the receive from the channel serverEvents
Receive(q) == [ evt |-> Head(q), rest |-> Tail(q) ]

\* serverEventListener takes an event; commandToAll writes it to every client
serverEventListener ==
  /\ server.serverEvents # << >>
  /\ server' = [server EXCEPT
       !.serverEvents = Receive(@).rest,
       !.received = [ c \in server.clients |->
                        Append(@[c], Receive(server.serverEvents).evt) ]]
  /\ ServerFrame

\* Respond, called by the hub event loop for a line of client c: the read
\* lock is taken and WriteMessage is called on the socket of c
Respond(c) ==
  /\ server.responding = {}
  /\ c \in server.clients
  /\ server' = [server EXCEPT !.responding = { c }]
  /\ ServerFrame

\* WriteMessage returns to Respond, which releases the read lock
RespondReturn ==
  /\ server.responding # {}
  /\ server' = [server EXCEPT !.responding = {}]
  /\ ServerFrame

NextServer ==
  \/ \E c \in 0..(MaxClients - 1) : Respond(c)
  \/ RespondReturn
  \/ wsEndpointCheck
  \/ \E ok \in BOOLEAN : wsEndpointAdd(ok)
  \/ \E c \in 0..(MaxClients - 1) : removeClient(c)
  \/ TriggerEvent
  \/ serverEventListener

SpecServer == Init /\ [][NextServer]_vars

\* SpecEngine: the hub loads engines and any operation is called on their
\* handles in any order
NextEngine ==
  \/ LoadEngine
  \/ \E e \in EngineIds, op \in EngineOps, known \in BOOLEAN, ok \in BOOLEAN :
       EngineCall(e, op, known, ok)

SpecEngine == Init /\ [][NextEngine]_vars

(***************************************************************************)
(* Properties                                                              *)
(***************************************************************************)
\* no gameLoop task is alive
NoLoop == \A l \in DOMAIN loops : loops[l].pc = "none"

\* no player has four in a row anywhere on the board
NoFour(tiles) ==
  \A cell \in 0..(Cells - 1) :
    tiles[cell] \in { Player1, Player2 } => ~OnRunOfFour(tiles, cell, tiles[cell])

\* m is an illegal move on s: no column of the board, or a full column
IllegalMove(s, m) == m \notin 0..(Width - 1) \/ s.Tiles[m] # Empty

\* C1: between two resets of the game the turn loops emit GameOverEvent at
\* most once, whatever the play and pause commands, and exactly once when
\* the board has become terminal and the loops have ended.
C1_GameOverOncePerGame ==
  /\ events.GameOver <= 1
  /\ (State.Winner # Empty /\ NoLoop /\ ~crashed) => events.GameOver = 1

\* C2: a step that emits GameOverEvent is taken on a terminal board only
\* (State.Winner is not Empty), and the step that ends a loop after a failed
\* turn emits no GameOverEvent.
C2_GameOverOnlyOnTerminalBoard ==
  [][ /\ events'.GameOver > events.GameOver => State.Winner # Empty
      /\ \A l \in DOMAIN loops :
           (loops[l].pc = "fail" /\ loops'[l].pc = "none")
             => events'.GameOver = events.GameOver ]_vars

\* C3: the NewStateEvents emitted since the last reset never outnumber the
\* moves applied since then (the entries appended to History), and when no
\* turn loop is alive the two numbers are equal; so a turn that ends by
\* pause emits none.
C3_NewStatePerMove ==
  /\ events.NewState <= HistoryIndex
  /\ (NoLoop /\ ~crashed) => events.NewState = HistoryIndex

\* C4: a step that sets Running, or starts a turn loop, is taken only when
\* both players are set and the board is not terminal.
C4_PlayOnlyOnNonTerminalBoard ==
  [][ ( \/ (~Running /\ Running')
        \/ \E l \in DOMAIN loops : loops[l].pc = "none" /\ loops'[l].pc # "none" )
      => /\ GamePlayer1 # NoEngine
         /\ GamePlayer2 # NoEngine
         /\ State.Winner = Empty ]_vars

\* C5: Pause is never left waiting on the pause signal with no turn loop
\* alive to take it (the hub event loop would be blocked forever).
C5_PauseNeverStranded ==
  (hub.pc = "pause" /\ ~crashed) => ~NoLoop

\* C6: at no time are two commands in progress on the same engine.
C6_EngineCommandsSerialized ==
  \A e \in EngineIds : inflight[e] <= 1

\* C7: when Stop returns an illegal move to a turn (a full column, an
\* integer outside 0..6), the turn fails (it goes on to emit ErrorEvent and
\* clear Running), State, History and HistoryIndex are left as they were, and
\* the process does not panic.
C7_IllegalMoveLeavesGameUnchanged ==
  [][ \A l \in DOMAIN loops :
        ( /\ loops[l].pc = "stop"
          /\ loops'[l].pc # "stop"
          /\ IllegalMove(State, loops'[l].move) )
        => /\ loops'[l].pc = "fail"
           /\ State' = State
           /\ History' = History
           /\ HistoryIndex' = HistoryIndex
           /\ ~crashed' ]_vars

\* C8: in a legal game HistoryIndex is always an index of History, the
\* current board is stored at History[HistoryIndex], and storing a board
\* never panics.
C8_HistoryNeverOverflows ==
  /\ HistoryIndex \in 0..(HistoryLen - 1)
  /\ History[HistoryIndex] = State
  /\ ~crashed

\* C9: when NextState returns a full board on which nobody has four in a
\* row, the board's Winner is Tie.
C9_FullBoardWithoutFourIsTie ==
  ( /\ lastRes.err = "ok"
    /\ BoardFull(lastRes.st.Tiles)
    /\ NoFour(lastRes.st.Tiles) )
  => lastRes.st.Winner = Tie

\* C10: when NextState succeeds on a non-terminal board, the token lies in
\* the cell the column's drop comes to rest in, Winner is the mover if and
\* only if that cell lies on a horizontal, vertical or diagonal run of at
\* least four of the mover's tokens, and otherwise, unless the board is
\* full, Winner stays Empty.
C10_WinnerIffRunOfFour ==
  (lastRes.err = "ok" /\ prevBoard.Winner = Empty) =>
    LET cell == restCell(prevBoard.Tiles, lastCol, Height - 1)
        mover == prevBoard.Player
        tiles == lastRes.st.Tiles
    IN  /\ tiles = [prevBoard.Tiles EXCEPT ![cell] = mover]
        /\ (lastRes.st.Winner = mover) <=> OnRunOfFour(tiles, cell, mover)
        /\ (~OnRunOfFour(tiles, cell, mover) /\ ~BoardFull(tiles))
             => lastRes.st.Winner = Empty

\* a move on a non-terminal board has just won the game for the mover
C10_WinningMoveMade ==
  /\ lastRes.err = "ok"
  /\ prevBoard.Winner = Empty
  /\ lastRes.st.Winner = prevBoard.Player
  /\ OnRunOfFour(lastRes.st.Tiles,
                 restCell(prevBoard.Tiles, lastCol, Height - 1),
                 prevBoard.Player)

\* the number of tokens of player on the board
TokensOf(tiles, player) ==
  Cardinality({ i \in 0..(Cells - 1) : tiles[i] = player })

\* C11: on every board reached from NewState by successful NextState calls,
\* Player1 has as many tokens as Player2 when Player1 is to move and exactly
\* one more when Player2 is to move.
C11_TokenCount ==
  /\ board.Player \in { Player1, Player2 }
  /\ board.Player = Player1 =>
       TokensOf(board.Tiles, Player1) = TokensOf(board.Tiles, Player2)
  /\ board.Player = Player2 =>
       TokensOf(board.Tiles, Player1) = TokensOf(board.Tiles, Player2) + 1

\* a board with several moves made and Player2 to move
C11_Player2ToMove ==
  /\ board.Player = Player2
  /\ TokensOf(board.Tiles, Player1) = 3
  /\ lastRes.err = "ok"

\* C12: for every board reached from NewState, decoding its encoding
\* succeeds and gives the board back: tiles, side to move and Winner.
C12_RoundTrip ==
  LET d == StateFromCFP(CFPString(board))
  IN  /\ d.err = "ok"
      /\ d.st.Tiles = board.Tiles
      /\ d.st.Player = board.Player
      /\ d.st.Winner = board.Winner

\* C13: on every reached board and for every column 0..6, the column is
\* legal if and only if NextState returns no error, and a NextState that
\* fails returns the board unchanged.
C13_LegalIffApplies ==
  \A c \in 0..(Width - 1) :
    LET r == NextState(board, c)
    IN  /\ LegalActions(board)[c] <=> r.err = "ok"
        /\ r.err # "ok" => r.st = board

\* a turn loop has just been given the illegal move m by Stop
IllegalMoveTurn(m) ==
  \E l \in DOMAIN loops : loops[l].pc = "fail" /\ loops[l].move = m

\* C14, as the code has it: with every stop answered by column 3 from the
\* empty board, never more than 6 moves are applied and never more than 6
\* NewStateEvents emitted; the turn that fails on the illegal move 3 is the
\* 7th, asked of the Player1 engine, with column 3 full after exactly 6
\* moves and 6 NewStateEvents.
C14_SixMovesThenIllegal ==
  /\ HistoryIndex <= 6
  /\ events.NewState <= 6
  /\ IllegalMoveTurn(3) =>
       /\ HistoryIndex = 6
       /\ events.NewState = 6
       /\ Tokens(State.Tiles) = 6
       /\ \A row \in 0..(Height - 1) : State.Tiles[3 + Width * row] # Empty
       /\ State.Player = Player1

\* the 7th turn of the game of threes has failed on the illegal move
C14_SeventhTurnFails ==
  /\ IllegalMoveTurn(3)
  /\ HistoryIndex = 6
  /\ events.NewState = 6

\* C14, as stated: the turn that fails on the illegal move 3 comes after
\* exactly 7 applied moves and 7 NewStateEvents, with column 3 full.
C14_SevenMovesThenIllegal ==
  IllegalMoveTurn(3) =>
    /\ HistoryIndex = 7
    /\ events.NewState = 7
    /\ \A row \in 0..(Height - 1) : State.Tiles[3 + Width * row] # Empty

\* the last operation on a handle was refused: it returned an error, did not
\* call the driver and left the handle as it was
Refused ==
  /\ lastCall.err
  /\ ~lastCall.call
  /\ ready[lastCall.e] = lastCall.before.ready
  /\ thinking[lastCall.e] = lastCall.before.thinking

\* C15: Go on a thinking engine, Stop on an engine that is not thinking and
\* every operation on an engine that was Quit return an error without calling
\* the driver and without changing the handle.
C15_HandleGuards ==
  lastCall.op # "none" =>
    /\ (lastCall.op = "Go" /\ lastCall.before.thinking) => Refused
    /\ (lastCall.op = "Stop" /\ ~lastCall.before.thinking) => Refused
    /\ lastCall.wasQuit => Refused

\* Go has been called on a ready engine that was thinking
C15_GoWhileThinking ==
  /\ lastCall.op = "Go"
  /\ lastCall.before.ready
  /\ lastCall.before.thinking
  /\ Refused

\* Handshake has returned and no other operation has been called
HandshakeReturned == drv.pc \in { "idle", "failed" } /\ drv.calls = 0

C17_CommandBeforeReady ==
  (drv.pc = "idle" /\ drv.op \in { "NewGame", "Position" } /\ drv.res = "ok")
    => drv.written = << CommandOf(drv.op), "isready" >>

\* C18: the column Stop returns is that of the bestmove the engine wrote in
\* answer to the stop of this call.
C18_StopReturnsItsReply ==
  (drv.pc = "idle" /\ drv.op = "Stop" /\ drv.res = "ok")
    => drv.tag = drv.stops

\* a line with an unknown first token or with a malformed payload
Malformed(msg) ==
  \/ msg[1] \notin { "id", "cfpok", "readyok", "bestmove", "info", "option" }
  \/ msg[1] = "id" /\ Len(msg) < 3
  \/ msg[1] = "bestmove" /\ (Len(msg) < 2 \/ Atoi(<< msg[2] >>).err)
  \/ msg[1] = "option" /\ msg[Len(msg)] = "type"

\* C19: a line with an unknown first token or a malformed payload is
\* discarded: the reader sends nothing and goes on to the next line.
C19_MalformedDiscarded ==
  (reader.line # << >> /\ Malformed(reader.line))
    => reader.pc = "scan" /\ ~crashed

\* C20: every Spinner the option parser accepted, and Handshake stored, has
\* Min <= Value <= Max.
C20_SpinnerInRange ==
  \A o \in drv.options : o.Min <= o.Value /\ o.Value <= o.Max

\* go has been sent to engine e by a turn and the bestmove answering the
\* following stop has not been received
Searching(e) ==
  \E l \in DOMAIN loops :
    loops[l].e = e /\ loops[l].pc \in { "select", "stop", "pausestop" }

\* C30: the hub starts writing a setoption to an engine only while the engine
\* is waiting, never between a go and the bestmove answering the next stop.
C30_SetOptionOnlyWhileWaiting ==
  [][(hub.pc = "idle" /\ hub'.pc = "setoption") => ~Searching(hub'.e)]_vars

\* C24: after every accepted setplayers (X, Y) that broadcast a players
\* line, the players line of an init snapshot is that line.
C24_InitPlayersMatchBroadcast ==
  sent.players # << >> => initRequest.players = sent.players

\* the last line handled was a setoption on option of engine 0
SetOptionOn(name) ==
  /\ Len(sent.req.args) >= 5
  /\ sent.req.args[1] = "setoption"
  /\ SubSeq(sent.req.args, 2, 5) = << "engineid", "0", "name", name >>

\* the option called name in the option map of the engines
OptionNamed(name) == CHOOSE o \in HandshakeOptions : o.Name = << name >>

\* C21: a setoption on a Spinner with an integer value writes to the engine
\* and broadcasts the same integer, and it lies within [Min, Max].
C21_SpinnerValueClamped ==
  \A name \in { "depth", "bad" } :
    (SetOptionOn(name) /\ sent.req.written # << >>) =>
      /\ sent.req.written[2] = sent.req.bcast[3]
      /\ OptionNamed(name).Min <= Atoi(<< sent.req.written[2] >>).num
      /\ Atoi(<< sent.req.written[2] >>).num <= OptionNamed(name).Max

\* C22: a setoption on a ComboBox with a value that is not a variant answers
\* an error, writes nothing and broadcasts nothing; with a variant, on an
\* engine that takes the write, it writes name and value to the engine and
\* broadcasts engine, name and value.
C22_ComboValueChecked ==
  (SetOptionOn("mode") /\ Len(sent.req.args) = 7) =>
    LET v == sent.req.args[7]
    IN  /\ v \notin OptionNamed("mode").Vars =>
             /\ sent.req.out = "error"
             /\ sent.req.written = << >>
             /\ sent.req.bcast = << >>
        /\ (v \in OptionNamed("mode").Vars /\ sent.req.out # "error") =>
             /\ sent.req.written = << << "mode" >>, v >>
             /\ sent.req.bcast = << 0, << "mode" >>, v >>

\* a variant of the combo box has been set
C22_VariantSet ==
  /\ SetOptionOn("mode")
  /\ sent.req.args[7] = "slow"
  /\ sent.req.bcast = << 0, << "mode" >>, "slow" >>

\* C23: after a successful setoption of an option to value v the option map
\* of the engine holds v for it.
C23_OptionMapHoldsValue ==
  \A name \in { "depth", "mode" } :
    (SetOptionOn(name) /\ sent.req.bcast # << >>) =>
      LET held == OptionNamed(name).Value
      IN  sent.req.bcast[3] =
            (IF "Min" \in DOMAIN OptionNamed(name) THEN Itoa(held) ELSE held)

\* C25: unloading an engine that is one of the current players, with no game
\* running, succeeds, removes the engine and clears its player slot.
C25_UnloadOfPlayerSucceeds ==
  (sent.unload.id # NoEngine /\ sent.unload.wasPlayer /\ ~Running) =>
    /\ ~sent.unload.err
    /\ sent.unload.id \notin engines
    /\ player1EngineID # sent.unload.id
    /\ player2EngineID # sent.unload.id

\* C28: whatever line an observer sent, the hub is still running.
C28_HubSurvivesEveryLine ==
  sent.req.args # << >> => ~crashed

\* C26: the number of registered observers never exceeds the cap.
C26_ConnectionCap ==
  /\ server.connections <= MaxConnections
  /\ Cardinality(server.clients) <= MaxConnections

\* C27: every client receives the broadcasts in the order in which
\* TriggerEvent sent them.
C27_BroadcastOrder ==
  \A c \in server.clients :
    \A i, j \in DOMAIN server.received[c] :
      i < j => server.received[c][i] < server.received[c][j]

\* a client has received two broadcasts
C27_TwoReceived ==
  \E c \in server.clients : Len(server.received[c]) >= 2

\* the fields of the Game the next step of turn loop l writes: the turn that
\* leaves Stop applies the move, the loop that ends clears Running
LoopWrites(l) ==
  CASE loops[l].pc = "stop" -> { "State", "History", "HistoryIndex" }
    [] loops[l].pc \in { "fail", "over" } -> { "Running" }
    [] loops[l].pc \in { "newgame1", "sending1", "newgame2", "sending2" } ->
         { "Player1Status", "Player2Status" }
    [] OTHER -> {}

\* the fields of the Game the hub event loop reads when an init line arrives
\* while it waits for the next line of an observer
HubReads ==
  IF HubIdle THEN { "State", "History", "HistoryIndex", "Running" } ELSE {}

\* C29: no field of the Game is written by a turn loop while the hub event
\* loop, which no lock or channel orders with that write, can read it.
C29_NoUnorderedAccess ==
  \A l \in DOMAIN loops : LoopWrites(l) \cap HubReads = {}

\* the turn loop tasks that have started and not yet returned
ActiveLoops == { l \in DOMAIN loops : loops[l].pc # "none" }

\* C33: at most one turn loop task is active at any time.
C33_OneTurnLoop == Cardinality(ActiveLoops) <= 1

\* C32: a call of SetPlayer1 / SetPlayer2, Reset or Position changes the
\* Game only when no turn loop task is active.
C32_ChangeOnlyWithoutLoop ==
  [][ (GamePlayer1' # GamePlayer1 \/ GamePlayer2' # GamePlayer2
         \/ (hub.pc = "idle" /\ commands' # commands
               /\ (State' # State \/ HistoryIndex' # HistoryIndex
                     \/ Player1Status' # Player1Status
                     \/ Player2Status' # Player2Status)))
        => ActiveLoops = {} ]_vars

\* C34: whenever both player slots hold the same engine handle, the two
\* slot statuses are equal.
C34_SameEngineSameStatus ==
  (GamePlayer1 = GamePlayer2 /\ GamePlayer1 # NoEngine)
    => Player1Status = Player2Status

\* C31: when the driver's Go returns to a turn loop, and so has written go to
\* the engine, the last position written to that engine since its last
\* cfpnewgame is the current Game.State.
C31_GoOnCurrentPosition ==
  [][ \A l \in DOMAIN loops :
        (loops[l].pc = "go" /\ loops'[l].pc = "select")
          => wire.pos[loops[l].e] = State ]_vars

\* C37: after an Engine.Go whose driver call failed, the handle is not left
\* thinking.
C37_FailedGoNotThinking ==
  (lastCall.op = "Go" /\ lastCall.call /\ lastCall.err)
    => ~thinking[lastCall.e]

\* C38: an engine that is still registered after an unload that failed is
\* ready: its handle accepts operations, a repeated unload among them.
C38_FailedUnloadLeavesUsable ==
  \A e \in engines : (sent.unload.id = e /\ sent.unload.err) => ready[e]

\* the channels only the select of Handshake receives from
HandshakeChannels == { "name", "author", "option", "cfpok" }

\* C35: the reader task never blocks forever: once Handshake has returned it
\* is not sending on a channel that nothing receives from any more.
C35_ReaderNeverStuck ==
  drv.pc \in { "idle", "ready", "best" } =>
    ~(\E ch \in HandshakeChannels : Sending(ch))

\* C36: the readyok that ends the wait of a ready round-trip answers the
\* isready of that same round-trip (ack: the call whose isready the received
\* readyok answers, 0 before a readyok is received).
C36_ReadyokOfThisProbe ==
  drv.ack # 0 => drv.ack = drv.calls

\* C39: no two writes go to the same observer connection at the same time:
\* commandToAll writes an event only to clients to which no Respond is
\* writing.
C39_WritesExclusive ==
  [][ \A c \in server.clients \cap server'.clients :
        Len(server'.received[c]) > Len(server.received[c])
          => c \notin server.responding ]_vars

\* C40: the positions written to an observer that sent init, those of the
\* snapshot and those broadcast afterwards, are the history positions, each
\* exactly once and in order.
C40_HistoryOnceInOrder ==
  /\ \A i \in DOMAIN sent.seen : sent.seen[i] = History[i - 1]
  /\ \A i, j \in DOMAIN sent.seen : i < j => sent.seen[i] # sent.seen[j]
====
